---- MODULE Spec2Model ----
(***************************************************************************)
(* A model of pdf-compressor: the result reconciler                        *)
(* (utils.del_or_keep_compressed), the orchestrator (main.compress) and    *)
(* the remote task client (ilovepdf.Task).                                 *)
(*                                                                         *)
(* The local filesystem is a function from paths to file contents.  A path *)
(* is a record [dir, name, suf]:                                           *)
(*   dir = "docs"   the user's directory; name is a base name and suf the  *)
(*                  number of times the suffix was inserted before the     *)
(*                  extension: [docs, a, 0] is docs/a.pdf and [docs, a, 1] *)
(*                  is docs/a-compressed.pdf;                              *)
(*   dir = "trash"  ~/.Trash, same file names as docs;                     *)
(*   dir = "tmp"    the temporary directory download() makes;              *)
(*   dir = "out"    the directory given as --outdir;                       *)
(*   dir = "cwd"    the working directory, where ZipFile.extractall()      *)
(*                  puts the archive's entries (name is the entry name).   *)
(* The directories are distinct,        so an archive entry never aliases a  *)
(* submitted original.                                                     *)
(* A content is a record [src, run, size]: src and run say where the bytes *)
(* came from (so that two files of equal size are still told apart), size  *)
(* is what os.path.getsize() returns.                                      *)
(***************************************************************************)
EXTENDS Integers, Sequences, FiniteSets, TLC

VARIABLES
    fs,         \* the filesystem: [Paths -> Contents \cup {NoFile}]
    darwin,     \* sys.platform == "darwin"
    cli,        \* the flags every run is given: inplace, suffix (non-empty
                \* or not) and min_size_reduction
    runs,       \* calls of del_or_keep_compressed so far
    last,       \* the last call of del_or_keep_compressed: arguments, the
                \* filesystem it started from, and what it returned or raised
    task,       \* the Task object: its fields
    requests,   \* the HTTP requests sent, in order (by the last Task method
                \* called, or since compress() began)
    hist,       \* the last Task method called and how it ended
    calls,      \* Task methods called so far
    comp,       \* the call of compress(): arguments, position, outcome
    cmd         \* the call of main(): arguments, the stored credential,
                \* position, outcome

reconVars == <<cli, runs, last>>
taskVars == <<task, requests, hist, calls>>
mainVars == <<cmd>>
vars == <<fs, darwin, cli, runs, last, task, requests, hist, calls, comp, cmd>>

(***************************************************************************)
(* Bounds.                                                                 *)
(***************************************************************************)
MaxSize == 2        \* file sizes are 0..MaxSize
MaxRuns == 2        \* calls of the reconciler in one behaviour
MaxBatch == 2       \* files in one batch
MaxDecideSize == 10 \* file sizes of the threshold sweep (SpecDecide)
MaxCalls == 4       \* Task methods called on one Task object (SpecTask)
MaxFilenames == 2   \* distinct file names given to compress()

(***************************************************************************)
(* Paths and contents.                                                     *)
(***************************************************************************)
BaseNames == {"a", "b"}

DocsPaths == [dir : {"docs"}, name : BaseNames, suf : 0..MaxRuns]
TrashPaths == [dir : {"trash"}, name : BaseNames, suf : 0..MaxRuns]

\* The archive entry names the model draws from, in lexicographic order
\* (digits sort before letters).
EntryOrder == <<"0-a.pdf", "1-b.pdf", "b.pdf", "y/0-a.pdf">>
EntryNames == {EntryOrder[i] : i \in 1..Len(EntryOrder)}

EntryRank(e) == CHOOSE i \in 1..Len(EntryOrder) : EntryOrder[i] = e

\* The number n such that os.path.basename(e) starts with "n-", or -1.
EntryPrefix(e) ==
    CASE e = "0-a.pdf" -> 0
      [] e = "1-b.pdf" -> 1
      [] e = "b.pdf" -> -1
      [] e = "y/0-a.pdf" -> 0

CwdPath(e) == [dir |-> "cwd", name |-> e, suf |-> 0]
CwdPaths == {CwdPath(e) : e \in EntryNames}

DownloadPath == [dir |-> "tmp", name |-> "dl", suf |-> 0]

OutdirPath == [dir |-> "out", name |-> "dl", suf |-> 0]

\* A path ending in .pdf that names no file.
MissingPdf == [dir |-> "docs", name |-> "missing", suf |-> 0]

\* A second directory of the user, holding a file named like one of the
\* first.
OtherPaths == [dir : {"other"}, name : {"a"}, suf : 0..MaxRuns]
OtherA == [dir |-> "other", name |-> "a", suf |-> 0]

Paths ==
    DocsPaths \cup TrashPaths \cup CwdPaths \cup OtherPaths
        \cup {DownloadPath, OutdirPath, MissingPdf}

NoFile == [src |-> "none", run |-> 0, size |-> 0]

isfile(f, p) == f[p] # NoFile
getsize(f, p) == f[p].size

\* os.remove(p), the file existing.
Remove(f, p) == [f EXCEPT ![p] = NoFile]

\* os.rename(src, dst) on a POSIX system: dst is replaced.
Rename(f, src, dst) ==
    IF src = dst THEN f ELSE [f EXCEPT ![dst] = f[src], ![src] = NoFile]

\* shutil.move(src, dst), dst not a directory: os.rename, or copy and
\* unlink across devices; an existing dst is overwritten either way.
Move(f, src, dst) == Rename(f, src, dst)

\* os.path.basename(p) of a path of the user's directory.
basename(p) == [name |-> p.name, suf |-> p.suf]

\* f"{expanduser('~')}/.Trash/{orig_file_name}"
TrashPath(p) == [dir |-> "trash", name |-> p.name, suf |-> p.suf]

\* base_name, ext = splitext(orig_path); f"{base_name}{suffix}{ext}"
NewPath(p) == [p EXCEPT !.suf = p.suf + 1]

(***************************************************************************)
(* sorted(): the paths of the user's directory in lexicographic order.     *)
(* The default suffix starts with "-", which sorts before ".", so          *)
(* a-compressed.pdf < a.pdf < b-compressed.pdf < b.pdf.                    *)
(***************************************************************************)
NameRank(n) == IF n = "a" THEN 0 ELSE 1
PathRank(p) == NameRank(p.name) * (MaxRuns + 1) + (MaxRuns - p.suf)

RECURSIVE SortedPaths(_)
SortedPaths(S) ==
    IF S = {} THEN <<>>
    ELSE LET m == CHOOSE x \in S : \A y \in S : PathRank(x) <= PathRank(y)
         IN  <<m>> \o SortedPaths(S \ {m})

RECURSIVE SortedEntries(_)
SortedEntries(S) ==
    IF S = {} THEN <<>>
    ELSE LET m == CHOOSE x \in S : \A y \in S : EntryRank(x) <= EntryRank(y)
         IN  <<m>> \o SortedEntries(S \ {m})

(***************************************************************************)
(* del_or_keep_compressed (utils.py).                                      *)
(***************************************************************************)

\* diff / orig_size > min_size_reduction / 100.  Both quotients are Python
\* floats; rounding to a double is monotone and the two quotients differ
\* by at least 1/(100 * orig_size) when they differ at all, more than one
\* unit in the last place as long as orig_size < 2^53 / 100.  Below that
\* size the float comparison orders the quotients as the rationals are
\* ordered, which is what cross-multiplying the positive denominators
\* computes.
TrueDiv(a, b) == <<a, b>>
FracGT(p, q) == p[1] * q[2] > q[1] * p[2]

KeepCompressedGE(orig_size, compressed_size, min_size_reduction) ==
    ~ FracGT(TrueDiv(min_size_reduction, 100),
             TrueDiv(orig_size - compressed_size, orig_size))
KeepCompressed(orig_size, compressed_size, min_size_reduction) ==
    FracGT(TrueDiv(orig_size - compressed_size, orig_size),
           TrueDiv(min_size_reduction, 100))

\* A ZIP archive is a function from EntryNames to the content of each
\* entry, NoFile for the names it does not hold.
EmptyArchive == [e \in EntryNames |-> NoFile]
namelist(archive) == {e \in EntryNames : archive[e] # NoFile}

\* lines 105-111: the files the loop pairs with the originals; for a batch
\* the archive's entries are extracted into the working directory.
CompressedFiles(a) ==
    IF Len(a.pdfs) = 1 THEN <<a.downloaded_file>>
    ELSE LET names == SortedEntries(namelist(a.archive))
         IN  [i \in 1..Len(names) |-> CwdPath(names[i])]

\* archive.extractall(): every entry is written below the working
\* directory, over whatever is there.
ExtractAll(f, archive) ==
    [p \in Paths |->
        IF p.dir = "cwd" /\ p.name \in namelist(archive)
        THEN archive[p.name] ELSE f[p]]

\* lines 118-125: the compressed file paired with the original at Python
\* index idx (0-based); NoPath when next() finds no entry (StopIteration).
NoPath == [dir |-> "none", name |-> "none", suf |-> 0]

FirstMatch(files, idx) ==
    LET hits == {i \in 1..Len(files) : EntryPrefix(files[i].name) = idx}
    IN  IF hits = {} THEN NoPath
        ELSE files[CHOOSE i \in hits : \A j \in hits : i <= j]

CompressedPath(files, idx, n_files) ==
    IF n_files > 1 THEN FirstMatch(files, idx) ELSE files[1]

\* lines 145-166: the in-place branch.
RetireOriginal(f, orig_path, is_darwin) ==
    IF is_darwin
    THEN LET trash_path == TrashPath(orig_path)
             f1 == IF isfile(f, trash_path) THEN Remove(f, trash_path) ELSE f
         IN  Rename(f1, orig_path, trash_path)
    ELSE f

ReplaceOriginalWithoutMove(f, compressed_path, orig_path, is_darwin) ==
    RetireOriginal(f, orig_path, is_darwin)
ReplaceOriginal(f, compressed_path, orig_path, is_darwin) ==
    Move(RetireOriginal(f, orig_path, is_darwin), compressed_path, orig_path)

\* lines 168-173: the suffix branch.
SaveWithSuffix(f, compressed_path, orig_path) ==
    Move(f, compressed_path, NewPath(orig_path))

\* stats[basename(orig_path)] = {...}: a dict keyed by base name, here the
\* set of its items.
StatsPut(stats, entry) == {s \in stats : s.file # entry.file} \cup {entry}

\* One iteration of the loop of lines 117-192, at 1-based position i.
LoopBody(i, st, a) ==
    LET orig_path == a.pdfs[i]
        n_files == Len(a.pdfs)
        files == CompressedFiles(a)
        compressed_path == CompressedPath(files, i - 1, n_files)
    IN  IF compressed_path = NoPath
        THEN [st EXCEPT !.exc = "StopIteration"]
        ELSE IF ~ isfile(st.fs, orig_path) \/ ~ isfile(st.fs, compressed_path)
        THEN [st EXCEPT !.exc = "OSError"]
        ELSE
        LET orig_size == getsize(st.fs, orig_path)
            compressed_size == getsize(st.fs, compressed_path)
            paired == Append(st.pairs, [orig |-> orig_path,
                                        compressed |-> compressed_path,
                                        content |-> st.fs[compressed_path]])
        IN  IF orig_size = 0
            THEN [st EXCEPT !.exc = "ZeroDivisionError", !.pairs = paired]
            ELSE IF KeepCompressed(orig_size, compressed_size, a.min_size_reduction)
            THEN IF a.inplace
                 THEN [st EXCEPT
                         !.fs = ReplaceOriginal(st.fs, compressed_path, orig_path, a.darwin),
                         !.pairs = paired,
                         !.stats = StatsPut(st.stats,
                             [file |-> basename(orig_path), orig_size |-> orig_size,
                              compressed_size |-> compressed_size,
                              action |-> "replaced original"])]
                 ELSE IF a.suffix
                 THEN [st EXCEPT
                         !.fs = SaveWithSuffix(st.fs, compressed_path, orig_path),
                         !.pairs = paired,
                         !.stats = StatsPut(st.stats,
                             [file |-> basename(orig_path), orig_size |-> orig_size,
                              compressed_size |-> compressed_size,
                              action |-> "saved as"])]
                 ELSE [st EXCEPT !.exc = "RuntimeError", !.pairs = paired]
            ELSE [st EXCEPT
                    !.fs = Remove(st.fs, compressed_path),
                    !.pairs = paired,
                    !.stats = StatsPut(st.stats,
                        [file |-> basename(orig_path), orig_size |-> orig_size,
                         compressed_size |-> compressed_size,
                         action |-> "kept original"])]

RECURSIVE LoopFrom(_, _, _)
LoopFrom(i, st, a) ==
    IF i > Len(a.pdfs) \/ st.exc # "none" THEN st
    ELSE LoopFrom(i + 1, LoopBody(i, st, a), a)

\* lines 194-199: remove the archive and what is left of its entries;
\* os.remove of a missing file raises OSError, which is swallowed.
Cleanup(f, a) ==
    LET files == CompressedFiles(a)
        gone == {files[i] : i \in 1..Len(files)} \cup {a.downloaded_file}
    IN  [p \in Paths |-> IF p \in gone THEN NoFile ELSE f[p]]

\* The whole function: the filesystem, statistics and pairing it leaves,
\* and the exception it raised ("none" when it returned).
DelOrKeepCompressed(f, a) ==
    LET st0 == [fs |-> f, stats |-> {}, pairs |-> <<>>, exc |-> "none"]
    IN  IF Len(a.pdfs) > 1 /\ ~ a.is_zip
        THEN [st0 EXCEPT !.exc = "BadZipFile"]
        ELSE LET f1 == IF Len(a.pdfs) > 1 THEN ExtractAll(f, a.archive) ELSE f
                 st == LoopFrom(1, [st0 EXCEPT !.fs = f1], a)
             IN  IF st.exc # "none" THEN st
                 ELSE [st EXCEPT !.fs = Cleanup(st.fs, a)]

(***************************************************************************)
(* ILovePDF and Task (ilovepdf.py).  A method is an operator on a record   *)
(* m = [t, log, fs, exc, ret]: t the object's fields, log the requests     *)
(* sent, fs the filesystem, exc the exception raised ("none" when the      *)
(* method returned) and ret the path download() returns.  The remote       *)
(* service's answers are the operators' other arguments.                   *)
(***************************************************************************)
start_server == "api.ilovepdf.com"
Servers == {"s1", "s2"}
TaskIds == {"t1", "t2"}
Tokens == {"tok"}
Passwords == {"", "pw"}

NoResponse == [present |-> FALSE, output_filenumber |-> 0, download_filename |-> ""]
NoName == [call |-> 0, k |-> 0]

\* The name the server gives the k-th file uploaded by the call-th method
\* call: a fresh one for every upload request.
ServerFilename(call, k) == [call |-> call, k |-> k]

\* Task.__init__ before auth() and start(): lines 41-51 and 137-143.
NewTask(debug, password) ==
    [exists |-> FALSE, debug |-> debug, password |-> password, headers |-> "",
     working_server |-> "", task_id |-> "", files |-> <<>>,
     process_response |-> NoResponse]

\* _send_request: one request to the working server, or to the start
\* server while there is none, with the headers of the moment and debug in
\* the payload in debug mode; ValueError unless response.ok.  The log keeps
\* each request with the response.ok it got.
RequestToEntryServer(t, method, endpoint, task_id, file, files, ok) ==
    [method |-> method, endpoint |-> endpoint, server |-> start_server,
     auth |-> t.headers, debug |-> t.debug, task |-> task_id,
     file |-> file, files |-> files, response_ok |-> ok]
RequestWithoutDebug(t, method, endpoint, task_id, file, files, ok) ==
    [method |-> method, endpoint |-> endpoint,
     server |-> IF t.working_server # "" THEN t.working_server ELSE start_server,
     auth |-> t.headers, debug |-> FALSE, task |-> task_id,
     file |-> file, files |-> files, response_ok |-> ok]
Request(t, method, endpoint, task_id, file, files, ok) ==
    [method |-> method, endpoint |-> endpoint,
     server |-> IF t.working_server # "" THEN t.working_server ELSE start_server,
     auth |-> t.headers, debug |-> t.debug, task |-> task_id,
     file |-> file, files |-> files, response_ok |-> ok]

SendRequestIgnoresStatus(m, method, endpoint, task_id, file, files, ok) ==
    [m EXCEPT !.log = Append(@, Request(m.t, method, endpoint, task_id, file, files, ok))]
SendRequest(m, method, endpoint, task_id, file, files, ok) ==
    [m EXCEPT !.log = Append(@, Request(m.t, method, endpoint, task_id, file, files, ok)),
              !.exc = IF ok THEN "none" ELSE "ValueError: status"]

\* auth(): lines 55-61.
Auth(m, resp) ==
    LET m1 == SendRequest(m, "post", "auth", "", NoPath, <<>>, resp.ok)
    IN  IF m1.exc # "none" THEN m1
        ELSE [m1 EXCEPT !.t.headers = resp.token]

\* start(): lines 160-175.  resp.empty is the empty JSON response.
Start(m, resp) ==
    LET m1 == SendRequest(m, "get", "start", "", NoPath, <<>>, resp.ok)
    IN  IF m1.exc # "none" THEN m1
        ELSE IF resp.empty THEN m1
        ELSE [m1 EXCEPT !.t.working_server = resp.server,
                        !.t.task_id = resp.task]

\* Task.__init__: auth(), then the fields, then start().
Construct(m, auth_resp, start_resp) ==
    LET m1 == Auth(m, auth_resp)
    IN  IF m1.exc # "none" THEN m1
        ELSE LET m2 == Start(m1, start_resp)
             IN  IF m2.exc # "none" THEN m2
                 ELSE [m2 EXCEPT !.t.exists = TRUE]

\* add_file(): lines 186-192.  self.files[file_path] = "" runs for a path
\* already present too: the entry keeps its place and loses its value.
FileIndex(files, path) == {i \in 1..Len(files) : files[i].path = path}

AddFile(m, path) ==
    IF ~ isfile(m.fs, path)
    THEN [m EXCEPT !.exc = "FileNotFoundError"]
    ELSE IF FileIndex(m.t.files, path) # {}
    THEN [m EXCEPT !.t.files =
            [i \in 1..Len(@) |->
                IF @[i].path = path
                THEN [path |-> path, server_filename |-> NoName] ELSE @[i]]]
    ELSE [m EXCEPT !.t.files = Append(@, [path |-> path, server_filename |-> NoName])]

\* upload(): lines 202-213.  The fail_at-th request gets a response that
\* is not ok (0: none does).
RECURSIVE UploadFrom(_, _, _, _)
UploadFrom(i, m, fail_at, call) ==
    IF i > Len(m.t.files) THEN m
    ELSE LET m1 == SendRequest(m, "post", "upload", m.t.task_id,
                               m.t.files[i].path, <<>>, i # fail_at)
         IN  IF m1.exc # "none" THEN m1
             ELSE UploadFrom(i + 1,
                     [m1 EXCEPT !.t.files[i].server_filename = ServerFilename(call, i)],
                     fail_at, call)

\* An upload() that would restore files when one of its requests fails.
UploadForgetsOnFailure(m, fail_at, call) ==
    LET r == UploadFrom(1, m, fail_at, call)
    IN  IF r.exc # "none" THEN [r EXCEPT !.t.files = m.t.files] ELSE r
Upload(m, fail_at, call) == UploadFrom(1, m, fail_at, call)

\* process(): lines 222-251.
ProcessPayloadPasswordOnFirst(t) ==
    [i \in 1..Len(t.files) |->
        [filename |-> t.files[i].path,
         server_filename |-> t.files[i].server_filename,
         password |-> IF i = 1 THEN t.password ELSE ""]]
ProcessPayload(t) ==
    [i \in 1..Len(t.files) |->
        [filename |-> t.files[i].path,
         server_filename |-> t.files[i].server_filename,
         password |-> t.password]]

ProcessAcceptsMore(m, fail_at, call, resp) ==
    LET m1 == Upload(m, fail_at, call)
    IN  IF m1.exc # "none" THEN m1
        ELSE
        LET m2 == SendRequest(m1, "post", "process", m1.t.task_id, NoPath,
                              ProcessPayload(m1.t), resp.ok)
        IN  IF m2.exc # "none" THEN m2
            ELSE
            LET m3 == [m2 EXCEPT !.t.process_response =
                        [present |-> TRUE, output_filenumber |-> resp.output_filenumber,
                         download_filename |-> "dl"]]
            IN  IF Len(m3.t.files) > resp.output_filenumber
                THEN [m3 EXCEPT !.exc = "ValueError: count"]
                ELSE m3
Process(m, fail_at, call, resp) ==
    LET m1 == Upload(m, fail_at, call)
    IN  IF m1.exc # "none" THEN m1
        ELSE
        LET m2 == SendRequest(m1, "post", "process", m1.t.task_id, NoPath,
                              ProcessPayload(m1.t), resp.ok)
        IN  IF m2.exc # "none" THEN m2
            ELSE
            LET m3 == [m2 EXCEPT !.t.process_response =
                        [present |-> TRUE, output_filenumber |-> resp.output_filenumber,
                         download_filename |-> "dl"]]
            IN  IF Len(m3.t.files) # resp.output_filenumber
                THEN [m3 EXCEPT !.exc = "ValueError: count"]
                ELSE m3

\* download(): lines 265-289.  save_to_dir is "None", "" or "out"; the
\* download filename has no directory part, so with save_to_dir = ""
\* os.path.dirname(file_path) is "" and os.makedirs("") raises.
DownloadWithoutGuard(m, save_to_dir, resp) ==
    LET m1 == SendRequest(m, "get", "download", m.t.task_id, NoPath, <<>>, resp.ok)
    IN  IF m1.exc # "none" THEN m1
        ELSE IF save_to_dir = ""
        THEN [m1 EXCEPT !.exc = "FileNotFoundError"]
        ELSE LET file_path == IF save_to_dir = "None" THEN DownloadPath ELSE OutdirPath
             IN  [m1 EXCEPT !.fs[file_path] = resp.content, !.ret = file_path]
Download(m, save_to_dir, resp) ==
    IF ~ m.t.process_response.present
    THEN [m EXCEPT !.exc = "ValueError: no files"]
    ELSE
    LET m1 == SendRequest(m, "get", "download", m.t.task_id, NoPath, <<>>, resp.ok)
    IN  IF m1.exc # "none" THEN m1
        ELSE IF save_to_dir = ""
        THEN [m1 EXCEPT !.exc = "FileNotFoundError"]
        ELSE LET file_path == IF save_to_dir = "None" THEN DownloadPath ELSE OutdirPath
             IN  [m1 EXCEPT !.fs[file_path] = resp.content, !.ret = file_path]

\* delete_current_task(): lines 296-302.
DeleteKeepsResponse(m, ok) ==
    IF m.t.task_id = "" THEN m
    ELSE LET m1 == SendRequest(m, "delete", "task", m.t.task_id, NoPath, <<>>, ok)
         IN  IF m1.exc # "none" THEN m1
             ELSE [m1 EXCEPT !.t.task_id = ""]
DeleteCurrentTask(m, ok) ==
    IF m.t.task_id = "" THEN m
    ELSE LET m1 == SendRequest(m, "delete", "task", m.t.task_id, NoPath, <<>>, ok)
         IN  IF m1.exc # "none" THEN m1
             ELSE [m1 EXCEPT !.t.task_id = "", !.t.process_response = NoResponse]

\* get_quota(): lines 69-71.  Of the response only remaining_files is
\* read; resp.server is a server field in its JSON body.
GetQuota(m, resp) == SendRequest(m, "get", "info", "", NoPath, <<>>, resp.ok)

\* A method call on the Task object of the state.
Enter(log) == [t |-> task, log |-> log, fs |-> fs, exc |-> "none", ret |-> NoPath]

(***************************************************************************)
(* The state machines.  A call of del_or_keep_compressed is one action:    *)
(* the function runs to its return or to the exception it raises.  So is a *)
(* call of a Task method.  compress() is a sequence of such calls, and its *)
(* position is comp.pc.                                                    *)
(***************************************************************************)
NoCall ==
    [called |-> FALSE,
     args |-> [pdfs |-> <<>>, downloaded_file |-> DownloadPath, is_zip |-> FALSE,
               archive |-> EmptyArchive, inplace |-> FALSE, suffix |-> FALSE,
               min_size_reduction |-> 0, darwin |-> FALSE],
     pre |-> [p \in Paths |-> NoFile],
     exc |-> "none", stats |-> {}, pairs |-> <<>>]

\* The record of the last method call on the Task object: the method, its
\* path argument, what it raised, the object and the filesystem before the
\* call, what the last process() raised, and whether a download() has
\* completed since the last start(); for download() its save_to_dir, and
\* the server field of the JSON body the call's last response had, and
\* whether the last request sent before the call was that of a
\* delete_current_task() that returned.
NoHist == [op |-> "none", arg |-> NoPath, exc |-> "none", process_exc |-> "never",
           pre |-> NewTask(FALSE, ""), pre_fs |-> [p \in Paths |-> NoFile],
           downloaded |-> FALSE, save_to_dir |-> "None", response_server |-> "",
           after_delete |-> FALSE]

\* min_size_reduction=None
NotGiven == 0 - 1

\* args.set_api_key is None
NotSet == "<None>"

NoCmd == [pc |-> "idle", set_api_key |-> NotSet, report_quota |-> FALSE,
          stored |-> "", stored_before |-> "", exc |-> "none"]

NoComp ==
    [pc |-> "idle", filenames |-> {}, inplace |-> FALSE, suffix |-> FALSE,
     min_size_reduction |-> NotGiven, on_bad_files |-> "error",
     on_no_files |-> "ignore", debug |-> FALSE, outdir |-> "", password |-> "",
     pdf_paths |-> <<>>, downloaded_file |-> NoPath, archive |-> EmptyArchive,
     exc |-> "none", raised_at |-> "none"]

InitFs ==
    [p \in Paths |->
        IF p.dir = "docs" /\ p.suf = 0 /\ p.name \in BaseNames
        THEN [src |-> p.name, run |-> 0, size |-> MaxSize]
        ELSE NoFile]

\* The arguments of a call of del_or_keep_compressed.
Args(pdfs, downloaded_file, archive, inplace, suffix, min_size_reduction, f) ==
    [pdfs |-> pdfs, downloaded_file |-> downloaded_file,
     is_zip |-> f[downloaded_file].src = "zip", archive |-> archive,
     inplace |-> inplace, suffix |-> suffix,
     min_size_reduction |-> min_size_reduction, darwin |-> darwin]

\* The call itself, from filesystem f0.
Reconciled(f0, a) ==
    LET r == DelOrKeepCompressed(f0, a)
    IN  [called |-> TRUE, args |-> a, pre |-> f0, exc |-> r.exc,
         stats |-> r.stats, pairs |-> r.pairs, fs |-> r.fs]

CallRecord(r) ==
    [called |-> TRUE, args |-> r.args, pre |-> r.pre, exc |-> r.exc,
     stats |-> r.stats, pairs |-> r.pairs]

\* A call with the artifact dl_content put at DownloadPath by the caller.
Call(pdfs, dl_content, archive, inplace, suffix, min_size_reduction) ==
    LET f0 == [fs EXCEPT ![DownloadPath] = dl_content]
        r == Reconciled(f0, Args(pdfs, DownloadPath, archive, inplace, suffix,
                                 min_size_reduction, f0))
    IN  /\ fs' = r.fs
        /\ runs' = runs + 1
        /\ last' = CallRecord(r)
        /\ UNCHANGED <<darwin, cli, taskVars, comp, mainVars>>

\* The thresholds of the repeated runs: at 50 a file halved in size is the
\* equality case.  SpecDecide sweeps 0..100.
Thresholds == {0, 50}

\* The files of the user's directory.  Each run adds at most one suffix,
\* so the names of DocsPaths suffice for MaxRuns runs.
Submittable == {p \in DocsPaths : isfile(fs, p)}

ServerContent(src, size) == [src |-> src, run |-> runs + 1, size |-> size]

\* The archives of n entries the server can send: any names, any sizes.
Archives(n) ==
    UNION {
        {[e \in EntryNames |-> IF e \in N THEN ServerContent(e, sz[e]) ELSE NoFile] :
            sz \in [N -> 0..MaxSize]} :
        N \in {M \in SUBSET EntryNames : Cardinality(M) = n}}

\* One file: the artifact is the compressed PDF itself.
ReconcileSingle ==
    /\ runs < MaxRuns
    /\ \E p \in Submittable, size \in 0..MaxSize :
          Call(<<p>>, ServerContent("dl", size), EmptyArchive,
               cli.inplace, cli.suffix, cli.min_size_reduction)

\* A batch: the artifact is a ZIP archive with one entry per file.
ReconcileBatch ==
    /\ runs < MaxRuns
    /\ \E S \in SUBSET Submittable :
          /\ Cardinality(S) \in 2..MaxBatch
          /\ \E archive \in Archives(Cardinality(S)) :
                Call(SortedPaths(S), ServerContent("zip", 0), archive,
                     cli.inplace, cli.suffix, cli.min_size_reduction)

\* A batch whose artifact is no archive: the server was handed a single
\* file.
ReconcileNoArchive ==
    /\ runs < MaxRuns
    /\ \E S \in SUBSET Submittable :
          /\ Cardinality(S) \in 2..MaxBatch
          /\ Call(SortedPaths(S), ServerContent("dl", MaxSize), EmptyArchive,
                  cli.inplace, cli.suffix, cli.min_size_reduction)

\* --inplace and --suffix exclude each other on the command line and the
\* suffix defaults to "-compressed": an in-place run has a non-empty suffix.
CliFlags ==
    {c \in [inplace : BOOLEAN, suffix : BOOLEAN, min_size_reduction : Thresholds] :
        c.inplace => c.suffix}

NoCli == [inplace |-> FALSE, suffix |-> TRUE, min_size_reduction |-> 0]

InitIdle ==
    /\ runs = 0
    /\ last = NoCall
    /\ requests = <<>>
    /\ hist = NoHist
    /\ calls = 0
    /\ comp = NoComp
    /\ cmd = NoCmd

InitReconcile ==
    /\ InitIdle
    /\ fs = InitFs
    /\ darwin \in BOOLEAN
    /\ cli \in CliFlags
    /\ task = NewTask(FALSE, "")

NextReconcile == ReconcileSingle \/ ReconcileBatch \/ ReconcileNoArchive

SpecReconcile == InitReconcile /\ [][NextReconcile]_vars

(***************************************************************************)
(* The threshold sweep: one file of every size up to MaxDecideSize, one    *)
(* compressed file of every size, every threshold the command line takes   *)
(* (choices=range(101)), in-place and suffix mode.                         *)
(***************************************************************************)
DocA == [dir |-> "docs", name |-> "a", suf |-> 0]
DocB == [dir |-> "docs", name |-> "b", suf |-> 0]

InitDecide ==
    /\ InitIdle
    /\ \E size \in 1..MaxDecideSize :
          fs = [p \in Paths |->
                   IF p = DocA THEN [src |-> "a", run |-> 0, size |-> size]
                   ELSE NoFile]
    /\ darwin \in BOOLEAN
    /\ cli \in [inplace : BOOLEAN, suffix : {TRUE}, min_size_reduction : 0..100]
    /\ task = NewTask(FALSE, "")

Decide ==
    /\ runs = 0
    /\ \E size \in 0..MaxDecideSize :
          Call(<<DocA>>, ServerContent("dl", size), EmptyArchive,
               cli.inplace, cli.suffix, cli.min_size_reduction)

NextDecide == Decide

SpecDecide == InitDecide /\ [][NextDecide]_vars

(***************************************************************************)
(* One batch of two files that have the same base name in two directories, *)
(* docs/a.pdf and other/a.pdf, in the order compress() sorts them.         *)
(***************************************************************************)
InitStats ==
    /\ InitIdle
    /\ \E size \in 1..MaxSize :
          fs = [InitFs EXCEPT ![OtherA] = [src |-> "other/a", run |-> 0, size |-> size]]
    /\ darwin \in BOOLEAN
    /\ cli \in CliFlags
    /\ task = NewTask(FALSE, "")

StatsBatch ==
    /\ runs = 0
    /\ \E archive \in Archives(2) :
          Call(<<DocA, OtherA>>, ServerContent("zip", 0), archive,
               cli.inplace, cli.suffix, cli.min_size_reduction)

NextStats == StatsBatch

SpecStats == InitStats /\ [][NextStats]_vars

(***************************************************************************)
(* A Task object under any sequence of method calls, the remote service    *)
(* answering as it likes.                                                  *)
(***************************************************************************)
AuthResponses == [ok : BOOLEAN, token : Tokens]

StartResponses ==
    {[ok |-> FALSE, empty |-> FALSE, server |-> "", task |-> ""],
     [ok |-> TRUE, empty |-> TRUE, server |-> "", task |-> ""]}
        \cup [ok : {TRUE}, empty : {FALSE}, server : Servers, task : TaskIds]

\* The info response, with or without a server field in its body.
InfoResponses ==
    {[ok |-> FALSE, server |-> ""]} \cup [ok : {TRUE}, server : {"", "s1"}]

ProcessResponses(n) ==
    {[ok |-> FALSE, output_filenumber |-> 0]}
        \cup [ok : {TRUE}, output_filenumber : 0..(n + 1)]

\* What a method call leaves: the object, the requests it sent, the
\* filesystem and the record of the call.
LeaveFull(op, arg, save_to_dir, response_server, m) ==
    /\ task' = m.t
    /\ requests' = m.log
    /\ fs' = m.fs
    /\ hist' = [op |-> op, arg |-> arg, exc |-> m.exc, pre |-> task, pre_fs |-> fs,
                process_exc |-> IF op = "process" THEN m.exc ELSE hist.process_exc,
                downloaded |->
                    CASE op = "start" -> FALSE
                      [] op = "download" /\ m.exc = "none" -> TRUE
                      [] OTHER -> hist.downloaded,
                save_to_dir |-> save_to_dir, response_server |-> response_server,
                after_delete |->
                    IF requests # <<>>
                    THEN hist.op = "delete" /\ hist.exc = "none"
                    ELSE hist.after_delete]
    /\ calls' = calls + 1
    /\ UNCHANGED <<darwin, reconVars, comp, mainVars>>

LeaveWith(op, arg, m) == LeaveFull(op, arg, "None", "", m)

Leave(op, m) == LeaveWith(op, NoPath, m)

TaskConstruct ==
    /\ ~ task.exists /\ hist.op = "none"
    /\ \E a \in AuthResponses, st \in StartResponses :
          LET m == Construct(Enter(<<>>), a, st)
          IN  /\ task' = m.t
              /\ requests' = m.log
              /\ hist' = [hist EXCEPT !.op = "construct", !.exc = m.exc, !.pre = task,
                                      !.pre_fs = fs,
                                      !.response_server =
                                          IF m.exc = "none" THEN st.server ELSE ""]
              /\ UNCHANGED <<fs, calls, darwin, reconVars, comp, mainVars>>

Callable == task.exists /\ calls < MaxCalls

TaskStart ==
    /\ Callable
    /\ \E st \in StartResponses :
          LeaveFull("start", NoPath, "None", st.server, Start(Enter(<<>>), st))

TaskAddFile ==
    /\ Callable
    /\ \E p \in {DocA, DocB, MissingPdf} :
          LeaveWith("add_file", p, AddFile(Enter(<<>>), p))

TaskUpload ==
    /\ Callable
    /\ \E fail_at \in 0..Len(task.files) :
          Leave("upload", Upload(Enter(<<>>), fail_at, calls + 1))

TaskProcess ==
    /\ Callable
    /\ \E fail_at \in 0..Len(task.files), r \in ProcessResponses(Len(task.files)) :
          Leave("process", Process(Enter(<<>>), fail_at, calls + 1, r))

TaskDownload ==
    /\ Callable
    /\ \E dir \in {"None", "", "out"}, ok \in BOOLEAN :
          LeaveFull("download", NoPath, dir, "",
                    Download(Enter(<<>>), dir,
                             [ok |-> ok, content |-> ServerContent("dl", MaxSize)]))

TaskDelete ==
    /\ Callable
    /\ \E ok \in BOOLEAN : Leave("delete", DeleteCurrentTask(Enter(<<>>), ok))

TaskGetQuota ==
    /\ Callable
    /\ \E resp \in InfoResponses :
          LeaveFull("get_quota", NoPath, "None", resp.server,
                    GetQuota(Enter(<<>>), resp))

InitTask ==
    /\ InitIdle
    /\ fs = InitFs
    /\ darwin = FALSE
    /\ cli = NoCli
    /\ \E debug \in BOOLEAN, password \in Passwords : task = NewTask(debug, password)

NextTask ==
    \/ TaskConstruct
    \/ TaskStart
    \/ TaskAddFile
    \/ TaskUpload
    \/ TaskProcess
    \/ TaskDownload
    \/ TaskDelete
    \/ TaskGetQuota

SpecTask == InitTask /\ [][NextTask]_vars

(***************************************************************************)
(* compress() (main.py), called once.  The API key is taken to be set.     *)
(***************************************************************************)
\* What can be named on the command line: the PDFs of the user's
\* directory, a PDF that does not exist, a file that is no PDF, and the
\* directory itself.
NotPdf == [dir |-> "docs", name |-> "x.svg", suf |-> 0]
DocsDir == [dir |-> "docs", name |-> "", suf |-> 0]

Items == Submittable \cup {MissingPdf, NotPdf, DocsDir}

\* sorted(): "docs" < "docs/a.pdf" < ... < "docs/missing.pdf" < "docs/x.svg".
ItemRank(x) ==
    CASE x = DocsDir -> 0
      [] x = MissingPdf -> 2 * (MaxRuns + 1) + 1
      [] x = NotPdf -> 2 * (MaxRuns + 1) + 2
      [] OTHER -> 1 + PathRank(x)

RECURSIVE SortedItems(_)
SortedItems(S) ==
    IF S = {} THEN <<>>
    ELSE LET m == CHOOSE x \in S : \A y \in S : ItemRank(x) <= ItemRank(y)
         IN  <<m>> \o SortedItems(S \ {m})

\* lines 243-251: uniq_files, and every directory replaced by the PDFs
\* below it.
RECURSIVE Expand(_, _)
Expand(uniq_files, f) ==
    IF uniq_files = <<>> THEN <<>>
    ELSE (IF Head(uniq_files) = DocsDir
          THEN SortedPaths({p \in DocsPaths : isfile(f, p)})
          ELSE <<Head(uniq_files)>>) \o Expand(Tail(uniq_files), f)

FilePaths(filenames, f) == Expand(SortedItems(filenames), f)

\* line 254: the regular expression .*\.pdf[ax]?\s*$
IsPdf(x) == x # NotPdf

PdfPaths(filenames, f) == SelectSeq(FilePaths(filenames, f), IsPdf)
NotPdfPaths(filenames, f) ==
    {x \in {FilePaths(filenames, f)[i] : i \in 1..Len(FilePaths(filenames, f))} :
        ~ IsPdf(x)}

\* lines 230-231 and 293: the threshold handed to the reconciler.
MinSizeRed(min_size_reduction, inplace) ==
    LET given == IF min_size_reduction = NotGiven
                 THEN (IF inplace THEN 10 ELSE 0)
                 ELSE min_size_reduction
    IN  IF given # 0 THEN given ELSE (IF inplace THEN 10 ELSE 0)

RaiseSwallowed(c, exc) == [c EXCEPT !.pc = "done"]
Raise(c, exc) == [c EXCEPT !.pc = "raised", !.exc = exc, !.raised_at = c.pc]

\* lines 230-277: the arguments are checked and the inputs listed.
BeginWithoutNoFilesCheck(filenames, inplace, suffix, min_size_reduction, on_bad_files, on_no_files, debug, outdir) ==
    LET c == [comp EXCEPT
                 !.filenames = filenames, !.inplace = inplace,
                 !.suffix = suffix,
                 !.min_size_reduction = min_size_reduction,
                 !.on_bad_files = on_bad_files,
                 !.on_no_files = on_no_files, !.debug = debug,
                 !.outdir = outdir]
        pdf_paths == PdfPaths(filenames, fs)
    IN  IF ~ (inplace \/ suffix)
        THEN Raise(c, "ValueError: suffix")
        ELSE IF on_bad_files = "error" /\ NotPdfPaths(filenames, fs) # {}
        THEN Raise(c, "ValueError: not pdf")
        ELSE [c EXCEPT !.pc = "construct", !.pdf_paths = pdf_paths]
Begin(filenames, inplace, suffix, min_size_reduction, on_bad_files, on_no_files, debug, outdir) ==
    LET c == [comp EXCEPT
                 !.filenames = filenames, !.inplace = inplace,
                 !.suffix = suffix,
                 !.min_size_reduction = min_size_reduction,
                 !.on_bad_files = on_bad_files,
                 !.on_no_files = on_no_files, !.debug = debug,
                 !.outdir = outdir]
        pdf_paths == PdfPaths(filenames, fs)
    IN  IF ~ (inplace \/ suffix)
        THEN Raise(c, "ValueError: suffix")
        ELSE IF on_bad_files = "error" /\ NotPdfPaths(filenames, fs) # {}
        THEN Raise(c, "ValueError: not pdf")
        ELSE IF Len(pdf_paths) = 0
        THEN (IF on_no_files = "error"
              THEN Raise(c, "ValueError: no files")
              ELSE [c EXCEPT !.pc = "done"])
        ELSE [c EXCEPT !.pc = "construct", !.pdf_paths = pdf_paths]

CompressBegin ==
    /\ comp.pc = "idle"
    /\ \E filenames \in SUBSET Items, inplace \in BOOLEAN, suffix \in BOOLEAN,
          min_size_reduction \in {NotGiven, 0, 50},
          on_bad_files \in {"error", "ignore"},
          on_no_files \in {"error", "ignore"}, debug \in BOOLEAN,
          outdir \in {"", "out"} :
          /\ Cardinality(filenames) <= MaxFilenames
          /\ comp' = Begin(filenames, inplace, suffix, min_size_reduction,
                           on_bad_files, on_no_files, debug, outdir)
    /\ UNCHANGED <<fs, darwin, reconVars, taskVars, mainVars>>

\* A step of compress() that is a call on the Task object.
Step(m, next) ==
    /\ task' = m.t
    /\ requests' = m.log
    /\ fs' = m.fs
    /\ comp' = IF m.exc # "none" THEN Raise(comp, m.exc)
               ELSE [comp EXCEPT !.pc = next, !.downloaded_file = m.ret]
    /\ UNCHANGED <<darwin, reconVars, hist, calls, mainVars>>

\* lines 279-282: Compress(api_key, ...), which authenticates and starts.
\* The service has one server and hands out one task id here.
CompressConstruct ==
    /\ comp.pc = "construct"
    /\ \E a \in AuthResponses,
          st \in {r \in StartResponses : r.server \in {"", "s1"} /\ r.task \in {"", "t1"}} :
          Step(Construct([t |-> NewTask(comp.debug, comp.password), log |-> requests,
                          fs |-> fs, exc |-> "none", ret |-> NoPath], a, st),
               "add_files")

\* lines 284-285
RECURSIVE AddFiles(_, _)
AddFiles(m, pdf_paths) ==
    IF pdf_paths = <<>> \/ m.exc # "none" THEN m
    ELSE AddFiles(AddFile(m, Head(pdf_paths)), Tail(pdf_paths))

CompressAddFiles ==
    /\ comp.pc = "add_files"
    /\ Step(AddFiles(Enter(requests), comp.pdf_paths), "process")

\* line 287
CompressProcess ==
    /\ comp.pc = "process"
    /\ \E fail_at \in 0..Len(task.files), r \in ProcessResponses(Len(task.files)) :
          Step(Process(Enter(requests), fail_at, 1, r), "download")

\* line 289.  The server packs what it was sent: one PDF for one file, an
\* archive with an entry per file for more.
CompressDownload ==
    /\ comp.pc = "download"
    /\ \/ /\ Len(task.files) < 2
          /\ \E ok \in BOOLEAN, size \in 0..MaxSize :
                Step(Download(Enter(requests), IF comp.outdir = "" THEN "" ELSE "out",
                              [ok |-> ok, content |-> ServerContent("dl", size)]),
                     "delete")
       \/ /\ Len(task.files) >= 2
          /\ \E ok \in BOOLEAN, archive \in Archives(Len(task.files)) :
                LET m == Download(Enter(requests), IF comp.outdir = "" THEN "" ELSE "out",
                                  [ok |-> ok, content |-> ServerContent("zip", 0)])
                IN  /\ task' = m.t
                    /\ requests' = m.log
                    /\ fs' = m.fs
                    /\ comp' = IF m.exc # "none" THEN Raise(comp, m.exc)
                               ELSE [comp EXCEPT !.pc = "delete",
                                                 !.downloaded_file = m.ret,
                                                 !.archive = archive]
                    /\ UNCHANGED <<darwin, reconVars, hist, calls, mainVars>>

\* line 291
CompressDelete ==
    /\ comp.pc = "delete"
    /\ \E ok \in BOOLEAN :
          LET m == DeleteCurrentTask(Enter(requests), ok)
          IN  /\ task' = m.t
              /\ requests' = m.log
              /\ comp' = IF m.exc # "none" THEN Raise(comp, m.exc)
                         ELSE [comp EXCEPT !.pc = "reconcile"]
              /\ UNCHANGED <<fs, darwin, reconVars, hist, calls, mainVars>>

\* lines 293-305
CompressReconcile ==
    /\ comp.pc = "reconcile"
    /\ IF comp.debug
       THEN /\ comp' = [comp EXCEPT !.pc = "done"]
            /\ UNCHANGED <<fs, runs, last>>
       ELSE LET r == Reconciled(fs,
                        Args(comp.pdf_paths, comp.downloaded_file, comp.archive,
                             comp.inplace, comp.suffix,
                             MinSizeRed(comp.min_size_reduction, comp.inplace), fs))
            IN  /\ fs' = r.fs
                /\ runs' = runs + 1
                /\ last' = CallRecord(r)
                /\ comp' = IF r.exc # "none" THEN Raise(comp, r.exc)
                           ELSE [comp EXCEPT !.pc = "done"]
    /\ UNCHANGED <<darwin, cli, taskVars, mainVars>>

InitCompress ==
    /\ InitIdle
    /\ fs = InitFs
    /\ darwin \in BOOLEAN
    /\ cli = NoCli
    /\ task = NewTask(FALSE, "")

NextCompress ==
    \/ CompressBegin
    \/ CompressConstruct
    \/ CompressAddFiles
    \/ CompressProcess
    \/ CompressDownload
    \/ CompressDelete
    \/ CompressReconcile

SpecCompress == InitCompress /\ [][NextCompress]_vars

(***************************************************************************)
(* main() (main.py), called once from the command line.  The stored        *)
(* credential is the value of ILOVEPDF_PUBLIC_KEY in the .env file, which  *)
(* load_dotenv() puts into os.environ.                                     *)
(***************************************************************************)
\* The values of --set-api-key: not given, the empty string, a string
\* that is no key, and a key.
SetApiKeyArgs == {NotSet, "", "foo", "project_public_new"}

StoredKeys == {"", "project_public_old"}

\* new_key.startswith("project_public_")
StartsWithPrefix(k) == k \in {"project_public_new", "project_public_old"}

\* lines 155-172.  `if new_key := args.set_api_key` is false for None and
\* for the empty string.
MainBegin ==
    /\ cmd.pc = "idle"
    /\ \E set_api_key \in SetApiKeyArgs, report_quota \in BOOLEAN :
          LET c == [cmd EXCEPT !.set_api_key = set_api_key,
                               !.report_quota = report_quota]
          IN  cmd' =
                IF set_api_key \notin {NotSet, ""}
                THEN IF ~ StartsWithPrefix(set_api_key)
                     THEN [c EXCEPT !.pc = "raised", !.exc = "ValueError: invalid API key"]
                     ELSE [c EXCEPT !.pc = "returned", !.stored = set_api_key]
                ELSE IF cmd.stored = ""
                THEN [c EXCEPT !.pc = "raised", !.exc = "KeyError"]
                ELSE IF report_quota
                THEN [c EXCEPT !.pc = "quota"]
                ELSE [c EXCEPT !.pc = "compress"]
    /\ UNCHANGED <<fs, darwin, reconVars, taskVars, comp>>

\* lines 174-179: ILovePDF(api_key).get_quota()
MainReportQuota ==
    /\ cmd.pc = "quota"
    /\ \E a \in AuthResponses, ok \in BOOLEAN :
          LET m1 == Auth(Enter(requests), a)
              m2 == IF m1.exc # "none" THEN m1
                    ELSE GetQuota(m1, [ok |-> ok, server |-> ""])
          IN  /\ task' = m2.t
              /\ requests' = m2.log
              /\ cmd' = IF m2.exc # "none"
                         THEN [cmd EXCEPT !.pc = "raised", !.exc = m2.exc]
                         ELSE [cmd EXCEPT !.pc = "returned"]
    /\ UNCHANGED <<fs, darwin, reconVars, hist, calls, comp>>

\* line 181: compress(**vars(args)).  The command line gives a non-empty
\* suffix unless told otherwise, and "" for --outdir when it is omitted.
MainCompress ==
    /\ cmd.pc = "compress"
    /\ comp.pc = "idle"
    /\ \E filenames \in SUBSET {DocA, DocB}, inplace \in BOOLEAN,
          outdir \in {"", "out"} :
          /\ Cardinality(filenames) <= MaxFilenames
          /\ comp' = Begin(filenames, inplace, TRUE, NotGiven, "error", "ignore",
                           FALSE, outdir)
    /\ cmd' = [cmd EXCEPT !.pc = "in compress"]
    /\ UNCHANGED <<fs, darwin, reconVars, taskVars>>

InitMain ==
    /\ runs = 0
    /\ last = NoCall
    /\ requests = <<>>
    /\ hist = NoHist
    /\ calls = 0
    /\ comp = NoComp
    /\ \E k \in StoredKeys : cmd = [NoCmd EXCEPT !.stored = k, !.stored_before = k]
    /\ fs = InitFs
    /\ darwin \in BOOLEAN
    /\ cli = NoCli
    /\ task = NewTask(FALSE, "")

NextMain ==
    \/ MainBegin
    \/ MainReportQuota
    \/ MainCompress
    \/ CompressConstruct
    \/ CompressAddFiles
    \/ CompressProcess
    \/ CompressDownload
    \/ CompressDelete
    \/ CompressReconcile

SpecMain == InitMain /\ [][NextMain]_vars

(***************************************************************************)
(* Properties of del_or_keep_compressed.                                   *)
(***************************************************************************)
Returned == last.called /\ last.exc = "none"

\* Where a kept compressed file is meant to end up.
Target(orig_path) == IF last.args.inplace THEN orig_path ELSE NewPath(orig_path)

\* The reduction the call measured for a file exceeds the threshold.
Exceeds(orig_size, compressed_size) ==
    100 * (orig_size - compressed_size) > last.args.min_size_reduction * orig_size

StatsOf(orig_path) == {s \in last.stats : s.file = basename(orig_path)}

\* C1: for every original size > 0, compressed size >= 0 and threshold in
\* 0..100, the compressed file is kept (it ends up at the original's path
\* or at the suffixed path) if and only if
\* 100 * (original - compressed) > threshold * original; otherwise, and in
\* particular when both sides are equal, the compressed file is gone and
\* the original is where and what it was.
C1_KeptIffReductionExceedsThreshold ==
    last.called =>
        LET orig == last.args.pdfs[1]
            compressed == last.pre[last.args.downloaded_file]
        IN  /\ last.exc = "none"
            /\ IF Exceeds(last.pre[orig].size, compressed.size)
               THEN fs[Target(orig)] = compressed
               ELSE /\ fs[orig] = last.pre[orig]
                    /\ \A p \in Paths : fs[p] # compressed

\* C1's case: the command line's in-place default of 10 percent met
\* exactly (10 bytes compressed to 9), and the compressed file discarded.
C1_Witness ==
    /\ last.called
    /\ last.args.min_size_reduction = 10
    /\ last.pre[last.args.pdfs[1]].size = 10
    /\ last.pre[last.args.downloaded_file].size = 9
    /\ \A s \in last.stats : s.action = "kept original"

\* C3: in suffix mode no call changes or removes a file that was in the
\* user's directory when the call began (a kept compressed file only ever
\* goes to a free path).
C3_SuffixModeNeverOverwrites ==
    (last.called /\ ~ last.args.inplace) =>
        \A p \in DocsPaths : isfile(last.pre, p) => fs[p] = last.pre[p]

\* C4: on a trash-capable platform, an in-place run on a single path whose
\* earlier in-place run put the original in the trash does not raise, and
\* the file already in the trash is still there, unmodified.
C4_SecondRunKeepsTrashedFile ==
    (/\ last.called /\ darwin /\ last.args.inplace
     /\ Len(last.args.pdfs) = 1
     /\ isfile(last.pre, TrashPath(last.args.pdfs[1]))) =>
        /\ last.exc = "none"
        /\ fs[TrashPath(last.args.pdfs[1])] = last.pre[TrashPath(last.args.pdfs[1])]

C6_DiscardLeavesOriginalUntouched ==
    Returned =>
        \A i \in 1..Len(last.pairs) :
            LET pr == last.pairs[i]
            IN  (\E s \in StatsOf(pr.orig) :
                    ~ Exceeds(s.orig_size, s.compressed_size)) =>
                    /\ fs[pr.orig] = last.pre[pr.orig]
                    /\ ~ isfile(fs, pr.compressed)

\* C7: for a batch of n >= 2 files and an archive of n entries, the call
\* pairs the i-th original with the i-th entry of the sorted listing, for
\* every i (so it finds a partner for every original).
C7_PairingIsPositional ==
    (last.called /\ Len(last.args.pdfs) >= 2 /\ last.args.is_zip) =>
        /\ last.exc # "StopIteration"
        /\ \A i \in 1..Len(last.pairs) :
              last.pairs[i].compressed = CompressedFiles(last.args)[i]

\* The arguments compress() can pass and the files it can pass them for:
\* in-place or a non-empty suffix, no empty original, an archive for a
\* batch.
ValidCall ==
    /\ last.called
    /\ last.args.inplace \/ last.args.suffix
    /\ \A i \in 1..Len(last.args.pdfs) : last.pre[last.args.pdfs[i]].size > 0
    /\ Len(last.args.pdfs) >= 2 => last.args.is_zip

\* C8: after every such call, whatever was kept or discarded, the
\* downloaded artifact is gone and so is every entry extracted from it.
C8_NoLeftovers ==
    ValidCall =>
        /\ ~ isfile(fs, last.args.downloaded_file)
        /\ Len(last.args.pdfs) >= 2 =>
              \A e \in namelist(last.args.archive) : ~ isfile(fs, CwdPath(e))

(***************************************************************************)
(* Properties of compress().                                               *)
(***************************************************************************)
InputErrors == {"ValueError: suffix", "ValueError: not pdf", "FileNotFoundError"}

\* C2: when compress() calls the reconciler for a caller who supplied
\* min_size_reduction, the threshold it hands over is the supplied value;
\* so with 0 supplied, in either mode, every file whose compressed size is
\* strictly below its original size is kept.
C2_ThresholdIsTheSuppliedOne ==
    (comp.pc \in {"done", "raised"} /\ last.called
        /\ comp.min_size_reduction # NotGiven) =>
        /\ last.args.min_size_reduction = comp.min_size_reduction
        /\ (comp.min_size_reduction = 0 /\ last.exc = "none") =>
              \A s \in last.stats :
                  s.compressed_size < s.orig_size => s.action # "kept original"

\* C9: when compress() has raised an input error (a listed PDF that does
\* not exist, an input that is no PDF under the "error" policy, an empty
\* suffix without in-place), no request has been sent.
C9_InputErrorSendsNothing ==
    (comp.pc = "raised" /\ comp.raised_at \in {"idle", "add_files"}
        /\ comp.exc \in InputErrors) =>
        requests = <<>>

(***************************************************************************)
(* Properties of Task.                                                     *)
(***************************************************************************)

\* C10: process_response is present only if the most recent call of
\* process() returned; after a call of process() that raised it is absent,
\* so a download() that follows raises without sending a request.
C10_ResultOnlyAfterSuccessfulProcess ==
    /\ task.process_response.present => hist.process_exc = "none"
    /\ (hist.op = "download" /\ hist.process_exc # "none") =>
          hist.exc = "ValueError: no files"

\* C11: whenever process_response is present, the output file count it
\* reports is the number of entries of files.
C11_CountMatchesFiles ==
    task.process_response.present =>
        task.process_response.output_filenumber = Len(task.files)

\* The last call was process() and its process request was answered.
ProcessAnswered ==
    /\ hist.op = "process"
    /\ requests # <<>>
    /\ requests[Len(requests)].endpoint = "process"
    /\ requests[Len(requests)].response_ok

\* C12: a call of process() whose process request was answered returns
\* normally if and only if the answer's output file count is the number of
\* entries of files; for every other count, smaller or larger, it raises
\* the file count mismatch error.
C12_ProcessReturnsIffCountMatches ==
    ProcessAnswered =>
        /\ task.process_response.present
        /\ hist.exc \in {"none", "ValueError: count"}
        /\ hist.exc = "none" <=>
              task.process_response.output_filenumber = Len(task.files)

\* C12's case: two files uploaded and a process response that reports
\* three.
C12_Witness ==
    /\ ProcessAnswered
    /\ Len(task.files) = 2
    /\ task.process_response.output_filenumber = 3
    /\ hist.exc = "ValueError: count"

\* C13: a call of download() made while process_response is absent raises,
\* sends no request, writes no file and leaves the Task object (task id,
\* files, working server) as it was.
C13_DownloadWithoutResultRejected ==
    (hist.op = "download" /\ ~ hist.pre.process_response.present) =>
        /\ hist.exc = "ValueError: no files"
        /\ requests = <<>>
        /\ fs = hist.pre_fs
        /\ task = hist.pre

\* C13's case: download() on a started task with a file added, after
\* delete_current_task() has removed the result of a process().
C13_Witness ==
    /\ hist.op = "download"
    /\ ~ hist.pre.process_response.present
    /\ hist.process_exc = "none"
    /\ Len(hist.pre.files) >= 1
    /\ hist.pre.working_server # ""

\* C14: upload(), process() and download() called while the task id is
\* empty raise and send nothing, so no upload, process or download request
\* carries an empty task id.
C14_NoRequestWithoutTaskId ==
    /\ (hist.op \in {"upload", "process", "download"} /\ hist.pre.task_id = "") =>
          (hist.exc # "none" /\ requests = <<>>)
    /\ \A i \in 1..Len(requests) :
          requests[i].endpoint \in {"upload", "process", "download"} =>
              requests[i].task # ""

\* C15: a call of process() made after a download() has completed, with no
\* start() in between, sends no upload request and no process request.
C15_NoProcessAfterDownload ==
    (hist.op = "process" /\ hist.downloaded) =>
        \A i \in 1..Len(requests) : requests[i].endpoint \notin {"upload", "process"}

\* C16: delete_current_task() with an empty task id raises nothing, sends
\* nothing and changes nothing; with a task id it sends exactly one delete
\* request, for that id, and then has cleared the task id and
\* process_response if the request succeeded, and has raised and left both
\* as they were if it failed.
C16_DeleteSendsIffTaskId ==
    hist.op = "delete" =>
        IF hist.pre.task_id = ""
        THEN hist.exc = "none" /\ requests = <<>> /\ task = hist.pre /\ fs = hist.pre_fs
        ELSE /\ Len(requests) = 1
             /\ requests[1].method = "delete"
             /\ requests[1].endpoint = "task"
             /\ requests[1].task = hist.pre.task_id
             /\ IF requests[1].response_ok
                THEN /\ hist.exc = "none"
                     /\ task.task_id = ""
                     /\ ~ task.process_response.present
                ELSE /\ hist.exc # "none"
                     /\ task = hist.pre

\* C16's case: a started task with a process result is deleted, and the
\* delete request succeeds.
C16_Witness ==
    /\ hist.op = "delete"
    /\ hist.pre.task_id # ""
    /\ hist.pre.process_response.present
    /\ hist.exc = "none"

\* C17: add_file(p) for a path p already in files leaves files as it was
\* (same keys, same order, same server filenames) and sends nothing.
C17_DuplicateAddIsNoOp ==
    (hist.op = "add_file" /\ FileIndex(hist.pre.files, hist.arg) # {}) =>
        /\ task.files = hist.pre.files
        /\ requests = <<>>

(***************************************************************************)
(* Properties of the requests compress() sends.                            *)
(***************************************************************************)
\* The keys of the files dict after add_file for each path in turn: the
\* paths in the order of their first occurrence.
RECURSIVE Distinct(_)
Distinct(paths) ==
    IF paths = <<>> THEN <<>>
    ELSE LET rest == Distinct(SubSeq(paths, 1, Len(paths) - 1))
             x == paths[Len(paths)]
         IN  IF \E i \in 1..Len(rest) : rest[i] = x THEN rest ELSE Append(rest, x)

\* C18: when compress() has returned for at least one PDF, the requests
\* it sent are, in this order, one auth, one start, one upload for each
\* submitted file in submission order, one process, one download and one
\* delete, and each of them succeeded.
C18_RequestOrder ==
    (comp.pc = "done" /\ Len(comp.pdf_paths) >= 1) =>
        LET files == Distinct(comp.pdf_paths)
            n == Len(files)
        IN  /\ Len(requests) = n + 5
            /\ \A i \in 1..Len(requests) : requests[i].response_ok
            /\ requests[1].endpoint = "auth"
            /\ requests[2].endpoint = "start"
            /\ \A i \in 1..n :
                  requests[2 + i].endpoint = "upload" /\ requests[2 + i].file = files[i]
            /\ requests[n + 3].endpoint = "process"
            /\ requests[n + 4].endpoint = "download"
            /\ requests[n + 5].method = "delete"

\* C19: a request of compress() answered without success is the last
\* request compress() sends: compress() has raised the status error, the
\* reconciler has not run, and every file of the user's directory is what
\* it was.
C19_FailedRequestAborts ==
    \A i \in 1..Len(requests) :
        ~ requests[i].response_ok =>
            /\ i = Len(requests)
            /\ comp.pc = "raised"
            /\ comp.exc = "ValueError: status"
            /\ ~ last.called
            /\ \A p \in DocsPaths : fs[p] = InitFs[p]

\* C19's case: a batch of two was uploaded, processed and downloaded, and
\* the delete request fails.
C19_Witness ==
    /\ comp.pc = "raised"
    /\ Len(task.files) = 2
    /\ requests # <<>>
    /\ requests[Len(requests)].method = "delete"
    /\ ~ requests[Len(requests)].response_ok
    /\ isfile(fs, OutdirPath)

C21_ServerAndToken ==
    \A i \in 1..Len(requests) :
        /\ requests[i].server =
              IF hist.pre.working_server # "" THEN hist.pre.working_server
              ELSE start_server
        /\ IF requests[i].endpoint = "auth"
           THEN requests[i].auth = ""
           ELSE requests[i].auth \in Tokens /\ requests[i].auth = task.headers

\* C21's case: process() of one file on a task that start() has given the
\* working server s2.
C21_Witness ==
    /\ hist.op = "process"
    /\ Len(requests) = 2
    /\ hist.pre.working_server = "s2"
    /\ hist.pre.task_id = "t2"
    /\ requests[2].endpoint = "process"

\* C22: the one process request of a call of process() carries, for the
\* i-th file in insertion order, its path, the server filename its upload
\* returned and the task's password.
ProcessRequests == {i \in 1..Len(requests) : requests[i].endpoint = "process"}

C22_ProcessPayloadPerFile ==
    (hist.op = "process" /\ ProcessRequests # {}) =>
        /\ ProcessRequests = {Len(requests)}
        /\ LET payload == requests[Len(requests)].files
           IN  /\ Len(payload) = Len(task.files)
               /\ \A i \in 1..Len(payload) :
                     /\ payload[i].filename = task.files[i].path
                     /\ payload[i].server_filename = task.files[i].server_filename
                     /\ payload[i].server_filename = ServerFilename(calls, i)
                     /\ payload[i].password = task.password

\* C22's case: two files and a password.
C22_Witness ==
    /\ hist.op = "process"
    /\ ProcessRequests # {}
    /\ Len(task.files) = 2
    /\ task.password = "pw"

\* C23: in debug mode every request carries debug = true, and outside
\* debug mode none carries a debug field.
C23_DebugOnEveryRequest ==
    \A i \in 1..Len(requests) : requests[i].debug = task.debug

\* C23's case: a task in debug mode has sent a download request.
C23_Witness ==
    /\ task.debug
    /\ hist.op = "download"
    /\ requests # <<>>
    /\ requests[1].debug

(***************************************************************************)
(* Properties of the statistics del_or_keep_compressed returns.            *)
(***************************************************************************)
\* C24: a call that returns for n distinct originals returns n statistics
\* entries, and the entry of each original carries that original's size,
\* the size of its compressed file and the action taken for it.
C24_OneStatsEntryPerOriginal ==
    Returned =>
        /\ Cardinality(last.stats) = Len(last.args.pdfs)
        /\ \A i \in 1..Len(last.pairs) :
              LET pr == last.pairs[i]
              IN  \E s \in StatsOf(pr.orig) :
                      /\ s.orig_size = last.pre[pr.orig].size
                      /\ s.compressed_size = pr.content.size
                      /\ (s.action = "kept original") <=>
                            ~ Exceeds(s.orig_size, s.compressed_size)

(***************************************************************************)
(* Properties of main().                                                   *)
(***************************************************************************)
\* C25: main() given --set-api-key K raises and leaves the stored
\* credential as it was when K does not start with "project_public_"; for
\* a K that does, it stores K and returns without sending a request or
\* touching a file.
C25_SetApiKey ==
    (cmd.pc # "idle" /\ cmd.set_api_key # NotSet) =>
        IF StartsWithPrefix(cmd.set_api_key)
        THEN /\ cmd.pc = "returned"
             /\ cmd.stored = cmd.set_api_key
             /\ requests = <<>>
             /\ fs = InitFs
        ELSE /\ cmd.pc = "raised"
             /\ cmd.stored = cmd.stored_before

(***************************************************************************)
(* Properties of compress() without input.                                 *)
(***************************************************************************)
\* compress() has ended and no PDF was left of its input after
\* de-duplication, directory expansion and extension filtering.
EndedWithoutPdfInput ==
    /\ comp.pc \in {"done", "raised"}
    /\ PdfPaths(comp.filenames, InitFs) = <<>>

\* The arguments pass the checks made before the input is counted: in-place
\* or a non-empty suffix, and no input that is no PDF under the "error"
\* policy.
PassesEarlierChecks ==
    /\ comp.inplace \/ comp.suffix
    /\ ~ (comp.on_bad_files = "error" /\ NotPdfPaths(comp.filenames, InitFs) # {})

C27_DownloadWithoutTargetDir ==
    (/\ hist.op = "download"
     /\ hist.save_to_dir \in {"None", ""}
     /\ hist.pre.process_response.present
     /\ requests # <<>>
     /\ requests[Len(requests)].response_ok) =>
        /\ hist.exc = "none"
        /\ isfile(fs, DownloadPath)

\* C28: after a call that returned and whose last response had a server
\* field in its body, the working server is that field's value.
C28_ServerFieldSetsWorkingServer ==
    (hist.exc = "none" /\ hist.response_server # "") =>
        task.working_server = hist.response_server

\* C29: upload() that returns has sent one upload request per entry of
\* files, in insertion order, and every entry holds the server filename of
\* its own response; upload() that raises at its k-th request has sent no
\* request after it, the entries before k hold their new server filenames
\* and the entries from k on are what they were.
C29_UploadInOrder ==
    hist.op = "upload" =>
        LET n == Len(hist.pre.files)
            k == Len(requests)
            sent == IF hist.exc = "none" THEN k ELSE k - 1
        IN  /\ Len(task.files) = n
            /\ IF hist.exc = "none" THEN k = n
               ELSE k \in 1..n /\ ~ requests[k].response_ok
            /\ \A i \in 1..k :
                  /\ requests[i].endpoint = "upload"
                  /\ requests[i].file = hist.pre.files[i].path
            /\ \A i \in 1..n :
                  IF i <= sent
                  THEN /\ requests[i].response_ok
                       /\ task.files[i].path = hist.pre.files[i].path
                       /\ task.files[i].server_filename = ServerFilename(calls, i)
                  ELSE task.files[i] = hist.pre.files[i]

\* C29's case: of two files the first is uploaded and the request for the
\* second fails.
C29_Witness ==
    /\ hist.op = "upload"
    /\ Len(hist.pre.files) = 2
    /\ Len(requests) = 2
    /\ hist.exc = "ValueError: status"
    /\ task.files[1].server_filename = ServerFilename(calls, 1)

\* C30: when the reconciler runs in compress() after the delete request
\* has been sent, it moves, replaces or deletes no file of the user's
\* directory.
C30_DeleteAfterReconciliation ==
    (last.called /\ \E i \in 1..Len(requests) : requests[i].method = "delete") =>
        \A p \in DocsPaths : fs[p] = last.pre[p]

(***************************************************************************)
(* Properties of the working server's lifetime and of the originals        *)
(* handed to the reconciler.                                               *)
(***************************************************************************)
\* C32: the first request sent after a delete_current_task() that sent its
\* request and returned goes to the entry server, not to the deleted
\* task's working server.
C32_EntryServerAfterDelete ==
    (hist.after_delete /\ requests # <<>>) => requests[1].server = start_server

\* C31: when compress() has called the reconciler, the originals handed
\* to it are the keys of the task's files, in the same number and order.
C31_OriginalsAreTaskFiles ==
    (comp.pc \in {"done", "raised"} /\ last.called) =>
        comp.pdf_paths = [i \in 1..Len(task.files) |-> task.files[i].path]

====
